---- MODULE Spec2Model ----
(***************************************************************************)
(* Reward accounting engine of oprtc_calculator.                           *)
(*                                                                         *)
(* The repository holds two copies of the engine:                          *)
(*   src/src/state.rs  GlobalState with Deposit / Withdraw / Transfer,     *)
(*                     distribute_rewards and the preview queries;         *)
(*   src/src/main.rs   GlobalState with Deposit / Withdraw only and        *)
(*                     update_rewards (guarded by two assert!s).           *)
(* The variable `engine` says which copy a behaviour runs; it is chosen    *)
(* in Init and never changes.                                              *)
(*                                                                         *)
(* Numbers.  U256 and U64 of the `ethers` crate are checked integers:      *)
(* +, -, * (and +=, -=) panic on overflow, they never wrap.  A panic is    *)
(* modelled by status = "panicked", after which process_events applies no  *)
(* further event.  TLC's integers are 32 bits wide, so the decimal scales  *)
(* of the source are shrunk by a factor 9 in the exponent:                 *)
(*   parse_ether("1") = 10^18 -> Ether = 10^2,                             *)
(*   main.rs' 10^27            -> 10^3,                                    *)
(*   U256::MAX ~ 10^77         -> U256Max = 2^30 - 1 ~ 10^9.               *)
(***************************************************************************)
EXTENDS Integers, Sequences, FiniteSets, TLC

VARIABLES
    engine,                  \* "state_rs" or "main_rs"
    user_records,            \* HashMap<Address, UserRecord>: a partial function
    total_shares_staked,     \* U256
    total_rewards_per_share, \* U256
    last_accounted_block,    \* U64
    status,                  \* "running", or "panicked" once an event has aborted
    applied,                 \* number of events process_events has taken from evts
    last_evt,                \* the event taken last (NoEvent before the first)
    ordered,                 \* history: every event so far had a block >= the block before it
    deposits_only,           \* history: every event so far was a Deposit
    last_event_block,        \* history: block of the event applied last
    fair,                    \* history: fair[a] / FairDen = reward issued to a's stake so far
    withdrawn_at,            \* history: block of a's last withdrawal of its whole stake (0: none)
    last_call                \* the preview call made last since the last event, with its result

vars == <<engine, user_records, total_shares_staked, total_rewards_per_share,
          last_accounted_block, status, applied, last_evt, ordered, deposits_only,
          last_event_block, fair, withdrawn_at, last_call>>

----------------------------------------------------------------------------
(* Bounds of the model *)

MaxEvents == 3
MaxShares == 1
MaxBlockOffset == 2

(* Program constants *)

BLOCK_CONTRACT_DEPLOYED == 17564663
Ether == 100
MainRewardsPerBlock == 1000

U256Max == 2^30 - 1

Accounts == {"alice", "bob"}
Shares == 0..MaxShares
Blocks == BLOCK_CONTRACT_DEPLOYED..(BLOCK_CONTRACT_DEPLOYED + MaxBlockOffset)

----------------------------------------------------------------------------
(* Checked arithmetic of U256 / U64.  Overflow stands for the panic        *)
(* "arithmetic operation overflow" and DivByZero for the panic "division   *)
(* by zero"; the panic of an operand (the left one first) is the panic of  *)
(* the expression.                                                         *)

Overflow == -1
DivByZero == -2

CheckedAdd(a, b) ==
    IF a < 0 THEN a ELSE IF b < 0 THEN b
    ELSE IF a > U256Max - b THEN Overflow ELSE a + b

WrappingSub(a, b) ==
    IF a < 0 THEN a ELSE IF b < 0 THEN b
    ELSE IF b > a THEN a - b + U256Max + 1 ELSE a - b

CheckedSub(a, b) ==
    IF a < 0 THEN a ELSE IF b < 0 THEN b
    ELSE IF b > a THEN Overflow ELSE a - b

CheckedMul(a, b) ==
    IF a < 0 THEN a ELSE IF b < 0 THEN b
    ELSE IF a = 0 \/ b = 0 THEN 0
    ELSE IF a > U256Max \div b THEN Overflow ELSE a * b

CheckedDiv(a, b) ==
    IF a < 0 THEN a ELSE IF b < 0 THEN b
    ELSE IF b = 0 THEN DivByZero ELSE a \div b

----------------------------------------------------------------------------
(* The engine state as one value, and the operations on it *)

GS == [user_records |-> user_records,
       total_shares_staked |-> total_shares_staked,
       total_rewards_per_share |-> total_rewards_per_share,
       last_accounted_block |-> last_accounted_block,
       status |-> status]

Panic(self) == [self EXCEPT !.status = "panicked"]

PanicDivByZero(self) == [self EXCEPT !.status = "divided_by_zero"]

Running(self) == self.status = "running"

UserRecord(shares, snapshot, accumulated) ==
    [shares_staked |-> shares,
     rewards_per_share_snapshot |-> snapshot,
     rewards_accumulated |-> accumulated]

Insert(map, key, value) ==
    [k \in (DOMAIN map) \cup {key} |-> IF k = key THEN value ELSE map[k]]

\* state.rs, fn distribute_rewards
distribute_rewards_no_block_update(self, block_number) ==
    IF self.last_accounted_block >= block_number \/ self.total_shares_staked = 0
    THEN self
    ELSE
        LET blocks_transcurred == block_number - self.last_accounted_block
            rewards_per_block == Ether
            pending_rewards == CheckedMul(blocks_transcurred, rewards_per_block)
            pending_rewards_per_share ==
                CheckedDiv(CheckedMul(pending_rewards, Ether), self.total_shares_staked)
            sum == CheckedAdd(self.total_rewards_per_share, pending_rewards_per_share)
        IN  IF pending_rewards_per_share = Overflow THEN Panic(self)
            ELSE IF sum = Overflow THEN Panic(self)
            ELSE [self EXCEPT !.total_rewards_per_share = sum]

\* as distribute_rewards, with the elapsed blocks saturating at zero instead of
\* the early return for a block that is not ahead
distribute_rewards_saturating(self, block_number) ==
    IF self.total_shares_staked = 0
    THEN self
    ELSE
        LET blocks_transcurred ==
                IF block_number > self.last_accounted_block
                THEN block_number - self.last_accounted_block ELSE 0
            rewards_per_block == Ether
            pending_rewards == CheckedMul(blocks_transcurred, rewards_per_block)
            pending_rewards_per_share ==
                CheckedDiv(CheckedMul(pending_rewards, Ether), self.total_shares_staked)
            sum == CheckedAdd(self.total_rewards_per_share, pending_rewards_per_share)
        IN  IF pending_rewards_per_share = Overflow THEN Panic(self)
            ELSE IF sum = Overflow
                 THEN Panic([self EXCEPT !.last_accounted_block = block_number])
            ELSE [self EXCEPT !.last_accounted_block = block_number,
                              !.total_rewards_per_share = sum]

\* as distribute_rewards, with `=` for `+=` on total_rewards_per_share
distribute_rewards_assigns(self, block_number) ==
    IF self.last_accounted_block >= block_number \/ self.total_shares_staked = 0
    THEN self
    ELSE
        LET blocks_transcurred == block_number - self.last_accounted_block
            rewards_per_block == Ether
            pending_rewards == CheckedMul(blocks_transcurred, rewards_per_block)
            pending_rewards_per_share ==
                CheckedDiv(CheckedMul(pending_rewards, Ether), self.total_shares_staked)
        IN  IF pending_rewards_per_share = Overflow THEN Panic(self)
            ELSE [self EXCEPT !.last_accounted_block = block_number,
                              !.total_rewards_per_share = pending_rewards_per_share]

\* as distribute_rewards, without the test of total_shares_staked
distribute_rewards_unguarded(self, block_number) ==
    IF self.last_accounted_block >= block_number
    THEN self
    ELSE
        LET blocks_transcurred == block_number - self.last_accounted_block
            rewards_per_block == Ether
            pending_rewards == CheckedMul(blocks_transcurred, rewards_per_block)
            pending_rewards_per_share ==
                CheckedDiv(CheckedMul(pending_rewards, Ether), self.total_shares_staked)
            sum == CheckedAdd(self.total_rewards_per_share, pending_rewards_per_share)
        IN  IF pending_rewards_per_share = DivByZero THEN PanicDivByZero(self)
            ELSE IF pending_rewards_per_share = Overflow THEN Panic(self)
            ELSE IF sum = Overflow
                 THEN Panic([self EXCEPT !.last_accounted_block = block_number])
            ELSE [self EXCEPT !.last_accounted_block = block_number,
                              !.total_rewards_per_share = sum]

distribute_rewards(self, block_number) ==
    IF self.last_accounted_block >= block_number \/ self.total_shares_staked = 0
    THEN self
    ELSE
        LET blocks_transcurred == block_number - self.last_accounted_block
            rewards_per_block == Ether
            pending_rewards == CheckedMul(blocks_transcurred, rewards_per_block)
            pending_rewards_per_share ==
                CheckedDiv(CheckedMul(pending_rewards, Ether), self.total_shares_staked)
            sum == CheckedAdd(self.total_rewards_per_share, pending_rewards_per_share)
        IN  IF pending_rewards_per_share = DivByZero THEN PanicDivByZero(self)
            ELSE IF pending_rewards_per_share = Overflow THEN Panic(self)
            ELSE IF sum = Overflow
                 THEN Panic([self EXCEPT !.last_accounted_block = block_number])
            ELSE [self EXCEPT !.last_accounted_block = block_number,
                              !.total_rewards_per_share = sum]

\* main.rs, fn update_rewards
update_rewards(self, block_number) ==
    IF ~(block_number >= self.last_accounted_block) THEN Panic(self)
    ELSE IF ~(self.total_shares_staked # 0) THEN Panic(self)
    ELSE
        LET blocks_transcurred == block_number - self.last_accounted_block
            rewards_per_block == MainRewardsPerBlock
            pending_rewards == CheckedMul(blocks_transcurred, rewards_per_block)
            pending_rewards_per_share ==
                CheckedDiv(pending_rewards, self.total_shares_staked)
            sum == CheckedAdd(self.total_rewards_per_share, pending_rewards_per_share)
        IN  IF pending_rewards_per_share = DivByZero THEN PanicDivByZero(self)
            ELSE IF pending_rewards_per_share = Overflow THEN Panic(self)
            ELSE IF sum = Overflow
                 THEN Panic([self EXCEPT !.last_accounted_block = block_number])
            ELSE [self EXCEPT !.last_accounted_block = block_number,
                              !.total_rewards_per_share = sum]

\* The part of process_deposit after the accumulator advance; it is the same
\* text in state.rs (lines 76-98) and main.rs (lines 58-80).
deposit_record_forgets_total(s1, deposit) ==
    LET known == deposit.address \in DOMAIN s1.user_records
        user == s1.user_records[deposit.address]
        accrued_rewards ==
            CheckedMul(CheckedSub(s1.total_rewards_per_share,
                                  user.rewards_per_share_snapshot),
                       user.shares_staked)
        user_record ==
            IF known
            THEN UserRecord(CheckedAdd(user.shares_staked, deposit.shares),
                            s1.total_rewards_per_share,
                            CheckedAdd(user.rewards_accumulated, accrued_rewards))
            ELSE UserRecord(deposit.shares, s1.total_rewards_per_share, 0)
    IN  IF user_record.shares_staked = Overflow
           \/ user_record.rewards_accumulated = Overflow
        THEN Panic(s1)
        ELSE [s1 EXCEPT !.user_records = Insert(@, deposit.address, user_record)]

deposit_record_zero_snapshot(s1, deposit) ==
    LET known == deposit.address \in DOMAIN s1.user_records
        user == s1.user_records[deposit.address]
        accrued_rewards ==
            CheckedMul(CheckedSub(s1.total_rewards_per_share,
                                  user.rewards_per_share_snapshot),
                       user.shares_staked)
        user_record ==
            IF known
            THEN UserRecord(CheckedAdd(user.shares_staked, deposit.shares),
                            s1.total_rewards_per_share,
                            CheckedAdd(user.rewards_accumulated, accrued_rewards))
            ELSE UserRecord(deposit.shares, 0, 0)
        inserted == [s1 EXCEPT !.user_records = Insert(@, deposit.address, user_record)]
        total == CheckedAdd(s1.total_shares_staked, deposit.shares)
    IN  IF user_record.shares_staked = Overflow
           \/ user_record.rewards_accumulated = Overflow
        THEN Panic(s1)
        ELSE IF total = Overflow THEN Panic(inserted)
        ELSE [inserted EXCEPT !.total_shares_staked = total]

deposit_record(s1, deposit) ==
    LET known == deposit.address \in DOMAIN s1.user_records
        user == s1.user_records[deposit.address]
        accrued_rewards ==
            CheckedMul(CheckedSub(s1.total_rewards_per_share,
                                  user.rewards_per_share_snapshot),
                       user.shares_staked)
        user_record ==
            IF known
            THEN UserRecord(CheckedAdd(user.shares_staked, deposit.shares),
                            s1.total_rewards_per_share,
                            CheckedAdd(user.rewards_accumulated, accrued_rewards))
            ELSE UserRecord(deposit.shares, s1.total_rewards_per_share, 0)
        inserted == [s1 EXCEPT !.user_records = Insert(@, deposit.address, user_record)]
        total == CheckedAdd(s1.total_shares_staked, deposit.shares)
    IN  IF user_record.shares_staked = Overflow
           \/ user_record.rewards_accumulated = Overflow
        THEN Panic(s1)
        ELSE IF total = Overflow THEN Panic(inserted)
        ELSE [inserted EXCEPT !.total_shares_staked = total]

\* state.rs, fn process_deposit
process_deposit(self, deposit) ==
    LET s1 == distribute_rewards(self, deposit.block_number)
    IN  IF ~Running(s1) THEN s1 ELSE deposit_record(s1, deposit)

\* main.rs, fn process_deposit
main_process_deposit(self, evt) ==
    LET s1 == IF self.total_shares_staked # 0
              THEN update_rewards(self, evt.block_number)
              ELSE self
    IN  IF ~Running(s1) THEN s1 ELSE deposit_record(s1, evt)

\* state.rs, fn process_withdraw after the accumulator advance (lines 104-117):
\* the record is mutated in place, field by field.
withdraw_record_wrapping(s1, withdraw) ==
    IF withdraw.address \notin DOMAIN s1.user_records THEN Panic(s1)
    ELSE
        LET user_record == s1.user_records[withdraw.address]
            rewards_accumulated ==
                CheckedMul(CheckedSub(s1.total_rewards_per_share,
                                      user_record.rewards_per_share_snapshot),
                           user_record.shares_staked)
            acc == CheckedAdd(user_record.rewards_accumulated, rewards_accumulated)
            shares == WrappingSub(user_record.shares_staked, withdraw.shares)
            total == WrappingSub(s1.total_shares_staked, withdraw.shares)
        IN  IF acc = Overflow THEN Panic(s1)
            ELSE [s1 EXCEPT
                     !.user_records[withdraw.address] =
                         UserRecord(shares, s1.total_rewards_per_share, acc),
                     !.total_shares_staked = total]

withdraw_record_or_default(s1, withdraw) ==
    LET user_record == IF withdraw.address \in DOMAIN s1.user_records
                       THEN s1.user_records[withdraw.address]
                       ELSE UserRecord(0, 0, 0)
        rewards_accumulated ==
            CheckedMul(CheckedSub(s1.total_rewards_per_share,
                                  user_record.rewards_per_share_snapshot),
                       user_record.shares_staked)
        acc == CheckedAdd(user_record.rewards_accumulated, rewards_accumulated)
        shares == CheckedSub(user_record.shares_staked, withdraw.shares)
        total == CheckedSub(s1.total_shares_staked, withdraw.shares)
        s3 == [s1 EXCEPT !.user_records =
                  Insert(@, withdraw.address,
                         UserRecord(shares, s1.total_rewards_per_share, acc))]
    IN  IF acc = Overflow \/ shares = Overflow THEN Panic(s1)
        ELSE IF total = Overflow THEN Panic(s3)
        ELSE [s3 EXCEPT !.total_shares_staked = total]

withdraw_record(s1, withdraw) ==
    IF withdraw.address \notin DOMAIN s1.user_records THEN Panic(s1)
    ELSE
        LET user_record == s1.user_records[withdraw.address]
            rewards_accumulated ==
                CheckedMul(CheckedSub(s1.total_rewards_per_share,
                                      user_record.rewards_per_share_snapshot),
                           user_record.shares_staked)
            acc == CheckedAdd(user_record.rewards_accumulated, rewards_accumulated)
            shares == CheckedSub(user_record.shares_staked, withdraw.shares)
            total == CheckedSub(s1.total_shares_staked, withdraw.shares)
            s2 == [s1 EXCEPT !.user_records[withdraw.address].rewards_accumulated = acc]
            s3 == [s2 EXCEPT
                      !.user_records[withdraw.address].shares_staked = shares,
                      !.user_records[withdraw.address].rewards_per_share_snapshot =
                          s1.total_rewards_per_share]
        IN  IF acc = Overflow THEN Panic(s1)
            ELSE IF shares = Overflow THEN Panic(s2)
            ELSE IF total = Overflow THEN Panic(s3)
            ELSE [s3 EXCEPT !.total_shares_staked = total]

\* main.rs, fn process_withdraw after the accumulator advance (lines 88-106):
\* the new record is built first and inserted whole.
main_withdraw_record(s1, evt) ==
    IF evt.address \notin DOMAIN s1.user_records THEN Panic(s1)
    ELSE
        LET user_record == s1.user_records[evt.address]
            rewards_accumulated ==
                CheckedMul(CheckedSub(s1.total_rewards_per_share,
                                      user_record.rewards_per_share_snapshot),
                           user_record.shares_staked)
            new == UserRecord(CheckedSub(user_record.shares_staked, evt.shares),
                              s1.total_rewards_per_share,
                              CheckedAdd(user_record.rewards_accumulated,
                                         rewards_accumulated))
            inserted == [s1 EXCEPT !.user_records = Insert(@, evt.address, new)]
            total == CheckedSub(s1.total_shares_staked, evt.shares)
        IN  IF new.shares_staked = Overflow \/ new.rewards_accumulated = Overflow
            THEN Panic(s1)
            ELSE IF total = Overflow THEN Panic(inserted)
            ELSE [inserted EXCEPT !.total_shares_staked = total]

\* state.rs, fn process_withdraw
process_withdraw(self, withdraw) ==
    LET s1 == distribute_rewards(self, withdraw.block_number)
    IN  IF ~Running(s1) THEN s1 ELSE withdraw_record(s1, withdraw)

\* main.rs, fn process_withdraw
main_process_withdraw(self, evt) ==
    LET s1 == IF self.total_shares_staked # 0
              THEN update_rewards(self, evt.block_number)
              ELSE self
    IN  IF ~Running(s1) THEN s1 ELSE main_withdraw_record(s1, evt)

\* The two primitive events a Transfer is built from (state.rs lines 121-131)
WithdrawOf(transfer) ==
    [address |-> transfer.from, shares |-> transfer.shares,
     block_number |-> transfer.block_number]

DepositOf(transfer) ==
    [address |-> transfer.to, shares |-> transfer.shares,
     block_number |-> transfer.block_number]

\* state.rs, fn process_transfer
process_transfer_deposit_first(self, transfer) ==
    LET s1 == process_deposit(self, DepositOf(transfer))
    IN  IF ~Running(s1) THEN s1 ELSE process_withdraw(s1, WithdrawOf(transfer))

process_transfer(self, transfer) ==
    LET s1 == process_withdraw(self, WithdrawOf(transfer))
    IN  IF ~Running(s1) THEN s1 ELSE process_deposit(s1, DepositOf(transfer))

\* as preview_user_rewards, with rewards_accumulated scaled by Ether once more
\* before it is added
preview_user_rewards_rescaled(self, user, block_number) ==
    IF user \notin DOMAIN self.user_records THEN 0
    ELSE
        LET user_record == self.user_records[user]
        IN  IF self.total_shares_staked = 0
            THEN
                LET accrued_rewards ==
                        CheckedMul(CheckedSub(self.total_rewards_per_share,
                                              user_record.rewards_per_share_snapshot),
                                   user_record.shares_staked)
                    unclaimed_rewards == user_record.rewards_accumulated
                IN  CheckedDiv(CheckedAdd(accrued_rewards, unclaimed_rewards), Ether)
            ELSE
                LET rewards_per_block == Ether
                    pending_rewards ==
                        CheckedMul(CheckedSub(block_number, self.last_accounted_block),
                                   rewards_per_block)
                    pending_rewards_per_share_staked ==
                        CheckedDiv(CheckedMul(pending_rewards, Ether),
                                   self.total_shares_staked)
                    user_rewards ==
                        CheckedMul(
                            CheckedSub(CheckedAdd(self.total_rewards_per_share,
                                                  pending_rewards_per_share_staked),
                                       user_record.rewards_per_share_snapshot),
                            user_record.shares_staked)
                IN  CheckedDiv(CheckedAdd(user_rewards,
                                          CheckedMul(user_record.rewards_accumulated,
                                                     Ether)),
                               Ether)

\* state.rs, fn preview_user_rewards; Overflow or DivByZero when the call panics
preview_user_rewards(self, user, block_number) ==
    IF user \notin DOMAIN self.user_records THEN 0
    ELSE
        LET user_record == self.user_records[user]
        IN  IF self.total_shares_staked = 0
            THEN
                LET accrued_rewards ==
                        CheckedMul(CheckedSub(self.total_rewards_per_share,
                                              user_record.rewards_per_share_snapshot),
                                   user_record.shares_staked)
                    unclaimed_rewards == user_record.rewards_accumulated
                IN  CheckedDiv(CheckedAdd(accrued_rewards, unclaimed_rewards), Ether)
            ELSE
                LET rewards_per_block == Ether
                    pending_rewards ==
                        CheckedMul(CheckedSub(block_number, self.last_accounted_block),
                                   rewards_per_block)
                    pending_rewards_per_share_staked ==
                        CheckedDiv(CheckedMul(pending_rewards, Ether),
                                   self.total_shares_staked)
                    user_rewards ==
                        CheckedMul(
                            CheckedSub(CheckedAdd(self.total_rewards_per_share,
                                                  pending_rewards_per_share_staked),
                                       user_record.rewards_per_share_snapshot),
                            user_record.shares_staked)
                IN  CheckedDiv(CheckedAdd(user_rewards, user_record.rewards_accumulated),
                               Ether)

\* The `rewards += reward` loop of get_all_rewards over a set of keys
RECURSIVE SumRewards(_, _, _)
SumRewards(self, keys, block_number) ==
    IF keys = {} THEN 0
    ELSE LET address == CHOOSE k \in keys : TRUE
         IN  CheckedAdd(SumRewards(self, keys \ {address}, block_number),
                        preview_user_rewards(self, address, block_number))

\* state.rs, fn get_all_rewards
get_all_rewards(self, block_number) ==
    SumRewards(self, DOMAIN self.user_records, block_number)

\* A call of preview_user_rewards(&self, ..): the engine it leaves and the
\* value it returns.
call_preview_user_rewards_settling(self, user, block_number) ==
    [self |-> distribute_rewards(self, block_number),
     result |-> preview_user_rewards(self, user, block_number)]

call_preview_user_rewards(self, user, block_number) ==
    [self |-> self,
     result |-> preview_user_rewards(self, user, block_number)]

\* A call of get_all_rewards(&self, ..)
call_get_all_rewards(self, block_number) ==
    [self |-> self,
     result |-> get_all_rewards(self, block_number)]

\* The orders in which HashMap::keys may yield the keys of a map: the
\* iteration order of a HashMap is arbitrary, any permutation can come out.
KeyOrders(map) ==
    {keys \in [1..Cardinality(DOMAIN map) -> DOMAIN map] :
        \A i, j \in 1..Cardinality(DOMAIN map) : keys[i] = keys[j] => i = j}

\* Vec::sort_by_key with the key Reverse(num): a stable sort, larger rewards
\* first; records with equal rewards keep the order they came in.
RECURSIVE sort_by_key_ascending(_)
sort_by_key_ascending(records) ==
    IF records = <<>> THEN <<>>
    ELSE LET init == sort_by_key_ascending(SubSeq(records, 1, Len(records) - 1))
             last == records[Len(records)]
             before == SelectSeq(init, LAMBDA r : r[2] <= last[2])
             after == SelectSeq(init, LAMBDA r : r[2] > last[2])
         IN  before \o <<last>> \o after

RECURSIVE sort_by_key(_)
sort_by_key(records) ==
    IF records = <<>> THEN <<>>
    ELSE LET init == sort_by_key(SubSeq(records, 1, Len(records) - 1))
             last == records[Len(records)]
             before == SelectSeq(init, LAMBDA r : r[2] >= last[2])
             after == SelectSeq(init, LAMBDA r : r[2] < last[2])
         IN  before \o <<last>> \o after

\* state.rs, fn get_user_rewards, with the keys coming out in the order `keys`
get_user_rewards_ascending(self, block_number, keys) ==
    LET mapped == [i \in 1..Len(keys) |->
                      <<keys[i], preview_user_rewards(self, keys[i], block_number)>>]
        records == SelectSeq(mapped, LAMBDA r : r[2] # 0)
    IN  IF \E i \in 1..Len(keys) : mapped[i][2] < 0
        THEN [panicked |-> TRUE, records |-> <<>>]
        ELSE [panicked |-> FALSE, records |-> sort_by_key_ascending(records)]

get_user_rewards(self, block_number, keys) ==
    LET mapped == [i \in 1..Len(keys) |->
                      <<keys[i], preview_user_rewards(self, keys[i], block_number)>>]
        records == SelectSeq(mapped, LAMBDA r : r[2] # 0)
    IN  IF \E i \in 1..Len(keys) : mapped[i][2] < 0
        THEN [panicked |-> TRUE, records |-> <<>>]
        ELSE [panicked |-> FALSE, records |-> sort_by_key(records)]

RECURSIVE SumShares(_, _)
SumShares(map, keys) ==
    IF keys = {} THEN 0
    ELSE LET k == CHOOSE x \in keys : TRUE
         IN  map[k].shares_staked + SumShares(map, keys \ {k})

----------------------------------------------------------------------------
(* History variables.  They record facts about the events applied so far   *)
(* that the engine itself does not keep; no operation of the engine reads  *)
(* them.                                                                   *)

RECURSIVE Gcd(_, _)
Gcd(a, b) == IF b = 0 THEN a ELSE Gcd(b, a % b)

RECURSIVE LcmUpTo(_)
LcmUpTo(n) == IF n <= 1 THEN 1
              ELSE LET l == LcmUpTo(n - 1) IN (l \div Gcd(l, n)) * n

\* Every total stake the bounded model can reach divides FairDen, so the
\* pro-rata shares below are exact integers.
FairDen == LcmUpTo(MaxEvents * MaxShares)

NoEvent == [kind |-> "None"]

NoCall == [fn |-> "None"]

\* Reward issued, pro rata, to account a's stake over the blocks from the last
\* applied event to block b, as a multiple of 1/FairDen reward units: for every
\* block with a non-zero total stake, Ether reward units split by stake.
FairAccrual(self, a, from_block, b) ==
    IF a \in DOMAIN self.user_records /\ self.total_shares_staked > 0 /\ b > from_block
    THEN (FairDen \div self.total_shares_staked)
             * (Ether * (b - from_block) * self.user_records[a].shares_staked)
    ELSE 0

History(evt, next) ==
    LET ok == Running(next)
        inorder == ordered /\ evt.block_number >= last_event_block
        tracked == ok /\ inorder /\ engine = "state_rs"
    IN  /\ ordered' = IF ok THEN inorder ELSE ordered
        /\ deposits_only' = IF ok THEN deposits_only /\ evt.kind = "Deposit"
                            ELSE deposits_only
        /\ last_event_block' = IF ok THEN evt.block_number ELSE last_event_block
        /\ fair' = IF tracked
                   THEN [a \in Accounts |->
                            fair[a] + FairAccrual(GS, a, last_event_block,
                                                  evt.block_number)]
                   ELSE IF ok THEN [a \in Accounts |-> 0] ELSE fair
        /\ withdrawn_at' = IF tracked /\ evt.kind = "Withdrawal" /\ evt.shares > 0
                         /\ next.user_records[evt.address].shares_staked = 0
                      THEN [withdrawn_at EXCEPT ![evt.address] = evt.block_number]
                      ELSE IF ok /\ ~inorder THEN [a \in Accounts |-> 0]
                      ELSE withdrawn_at

----------------------------------------------------------------------------
(* The state machine: process_events takes one event of evts per step *)

\* state.rs, fn new; main.rs, the GlobalState literal of fn main
Init ==
    /\ engine \in {"state_rs", "main_rs"}
    /\ user_records = <<>>
    /\ total_shares_staked = 0
    /\ total_rewards_per_share = 0
    /\ last_accounted_block = BLOCK_CONTRACT_DEPLOYED
    /\ status = "running"
    /\ applied = 0
    /\ last_evt = NoEvent
    /\ ordered = TRUE
    /\ deposits_only = TRUE
    /\ last_event_block = BLOCK_CONTRACT_DEPLOYED
    /\ fair = [a \in Accounts |-> 0]
    /\ withdrawn_at = [a \in Accounts |-> 0]
    /\ last_call = NoCall

\* One turn of the `for evt in evts` loop: evt is applied and the engine is
\* left as `next`; a panic ends the loop.
Step(evt, next) ==
    /\ status = "running"
    /\ applied < MaxEvents
    /\ user_records' = next.user_records
    /\ total_shares_staked' = next.total_shares_staked
    /\ total_rewards_per_share' = next.total_rewards_per_share
    /\ last_accounted_block' = next.last_accounted_block
    /\ status' = next.status
    /\ applied' = applied + 1
    /\ last_evt' = evt
    /\ engine' = engine
    /\ last_call' = NoCall
    /\ History(evt, next)

DepositEvent(a, s, b) ==
    [kind |-> "Deposit", address |-> a, shares |-> s, block_number |-> b]

WithdrawEvent(a, s, b) ==
    [kind |-> "Withdrawal", address |-> a, shares |-> s, block_number |-> b]

TransferEvent(f, t, s, b) ==
    [kind |-> "Transfer", from |-> f, to |-> t, shares |-> s, block_number |-> b]

\* process_events, arm Event::Deposit
Deposit ==
    \E a \in Accounts, s \in Shares, b \in Blocks :
        LET evt == DepositEvent(a, s, b)
        IN  Step(evt, IF engine = "state_rs" THEN process_deposit(GS, evt)
                      ELSE main_process_deposit(GS, evt))

\* process_events, arm Event::Withdrawal
Withdrawal ==
    \E a \in Accounts, s \in Shares, b \in Blocks :
        LET evt == WithdrawEvent(a, s, b)
        IN  Step(evt, IF engine = "state_rs" THEN process_withdraw(GS, evt)
                      ELSE main_process_withdraw(GS, evt))

\* process_events, arm Event::Transfer (state.rs only)
Transfer ==
    /\ engine = "state_rs"
    /\ \E f \in Accounts, t \in Accounts, s \in Shares, b \in Blocks :
        LET evt == TransferEvent(f, t, s, b)
        IN  Step(evt, process_transfer(GS, evt))

Next == Deposit \/ Withdrawal \/ Transfer

Spec == Init /\ [][Next]_vars

\* A caller of the library reads the engine between events: the call leaves
\* the engine as out.self and returns out.result; a panic ends the program.
Call(call, out) ==
    /\ status = "running"
    /\ engine = "state_rs"
    /\ user_records' = out.self.user_records
    /\ total_shares_staked' = out.self.total_shares_staked
    /\ total_rewards_per_share' = out.self.total_rewards_per_share
    /\ last_accounted_block' = out.self.last_accounted_block
    /\ status' = IF out.result = DivByZero THEN "divided_by_zero"
                 ELSE IF out.result = Overflow THEN "panicked"
                 ELSE out.self.status
    /\ last_call' = [call EXCEPT !.result = out.result]
    /\ UNCHANGED <<engine, applied, last_evt, ordered, deposits_only,
                   last_event_block, fair, withdrawn_at>>

\* state.rs, a call of preview_user_rewards
PreviewUserRewards ==
    \E a \in Accounts, b \in Blocks :
        Call([fn |-> "preview_user_rewards", user |-> a, block_number |-> b, result |-> 0],
             call_preview_user_rewards(GS, a, b))

\* state.rs, a call of get_all_rewards
GetAllRewards ==
    \E b \in Blocks :
        Call([fn |-> "get_all_rewards", user |-> "", block_number |-> b, result |-> 0],
             call_get_all_rewards(GS, b))

NextQuery == Next \/ PreviewUserRewards \/ GetAllRewards

\* The events of Spec, with preview calls between them
SpecQuery == Init /\ [][NextQuery]_vars

TypeOK ==
    /\ engine \in {"state_rs", "main_rs"}
    /\ status \in {"running", "panicked", "divided_by_zero"}
    /\ DOMAIN user_records \subseteq Accounts
    /\ applied \in 0..MaxEvents
    /\ last_accounted_block \in Blocks
    /\ last_call = NoCall \/ last_call.block_number \in Blocks

----------------------------------------------------------------------------
(* Properties *)

StateRs == engine = "state_rs"

Live == status = "running"

AppliedEvent == Live /\ applied > 0

\* C1. Conservation: after every event that is applied without aborting,
\* total_shares_staked is the sum of shares_staked over all user records
\* (both copies of the engine).
C1_Conservation ==
    Live => total_shares_staked = SumShares(user_records, DOMAIN user_records)

\* C1 happens: three events, the last a withdrawal that leaves stake behind,
\* with both accounts on record.
C1_Witness ==
    /\ Live
    /\ applied = 3
    /\ last_evt.kind = "Withdrawal"
    /\ last_evt.shares > 0
    /\ DOMAIN user_records = Accounts
    /\ total_shares_staked > 0

\* Reward issued to account a's stake up to evaluation block b, in 1/FairDen
\* reward units: blocks with no stake at all issue nothing to anybody.
FairAt(a, b) == fair[a] + FairAccrual(GS, a, last_event_block, b)

EvaluationBlocks == {b \in Blocks : b >= last_event_block}

\* Integer-division loss of one account's preview, in reward units: below one
\* unit of the accumulator per advance (shares_staked / Ether reward units
\* each), and below one reward unit in the final division.
DivisionLoss(a) ==
    2 + ((applied + 1) * user_records[a].shares_staked) \div Ether

RECURSIVE SumDivisionLoss(_)
SumDivisionLoss(keys) ==
    IF keys = {} THEN 0
    ELSE LET k == CHOOSE x \in keys : TRUE
         IN  DivisionLoss(k) + SumDivisionLoss(keys \ {k})

\* C2. Zero-stake forfeiture, as claimed: in a block-ordered replay no
\* account's preview exceeds the reward issued to its stake, where the blocks
\* that elapse with total_shares_staked = 0 issue nothing.
C2_ZeroStakeForfeited ==
    (Live /\ StateRs /\ ordered) =>
        \A a \in Accounts : \A b \in EvaluationBlocks :
            LET p == preview_user_rewards(GS, a, b)
            IN  p # Overflow => p * FairDen <= FairAt(a, b)

\* An account that re-deposits after having withdrawn its whole stake at an
\* earlier block, and held nothing in between.
Redeposited(a) ==
    /\ Live /\ StateRs /\ ordered
    /\ last_evt.kind = "Deposit"
    /\ last_evt.address = a
    /\ last_evt.shares > 0
    /\ withdrawn_at[a] # 0
    /\ withdrawn_at[a] < last_evt.block_number
    /\ user_records[a].shares_staked = last_evt.shares

\* C3. Residual claim, as claimed: right after the re-deposit at block b2 the
\* preview at any b >= b2 is the reward settled by the withdrawal
\* (rewards_accumulated) plus the new stake's pro-rata share of the blocks
\* from b2 to b, within one unit of rounding; nothing for [b1, b2).
C3_ResidualClaim ==
    \A a \in Accounts : Redeposited(a) =>
        \A b \in EvaluationBlocks :
            LET p == preview_user_rewards(GS, a, b)
                settled == user_records[a].rewards_accumulated
                accrued == (Ether * Ether * (b - last_evt.block_number)
                              * user_records[a].shares_staked)
                           \div total_shares_staked
                expected == (settled + accrued) \div Ether
            IN  p # Overflow /\ p <= expected /\ expected - p <= 1

\* C4. Deposit-only fairness per account, as claimed: every account's preview
\* is its pro-rata share of the reward issued since its own deposit, up to the
\* integer-division loss (so 0 at the block of its first deposit).
C4_DepositOnlyFairness ==
    (Live /\ StateRs /\ ordered /\ deposits_only) =>
        \A a \in DOMAIN user_records : \A b \in EvaluationBlocks :
            LET p == preview_user_rewards(GS, a, b)
            IN  /\ p # Overflow
                /\ p * FairDen <= FairAt(a, b)
                /\ FairAt(a, b) - p * FairDen <= FairDen * DivisionLoss(a)

\* C5. Deposit-only aggregate, as claimed: with at least one deposit,
\* get_all_rewards(b) is (b - deploy block) x reward rate up to the
\* integer-division loss, and never more.
C5_DepositOnlyAggregate ==
    (Live /\ StateRs /\ ordered /\ deposits_only /\ applied > 0) =>
        \A b \in EvaluationBlocks :
            LET all == get_all_rewards(GS, b)
                issued == (b - BLOCK_CONTRACT_DEPLOYED) * Ether
            IN  /\ all # Overflow
                /\ all <= issued
                /\ issued - all <= SumDivisionLoss(DOMAIN user_records)

\* C5 amended: the same, for histories that leave a non-zero total stake.
C5_DepositOnlyAggregateStaked ==
    (Live /\ StateRs /\ ordered /\ deposits_only /\ total_shares_staked > 0) =>
        \A b \in EvaluationBlocks :
            LET all == get_all_rewards(GS, b)
                issued == (b - BLOCK_CONTRACT_DEPLOYED) * Ether
            IN  /\ all # Overflow
                /\ all <= issued
                /\ issued - all <= SumDivisionLoss(DOMAIN user_records)

\* The account an event takes shares from
Source(evt) == IF evt.kind = "Transfer" THEN evt.from ELSE evt.address

Takes(evt) == evt.kind \in {"Withdrawal", "Transfer"}

\* C6. Out-of-order events are fatal, as claimed (of state.rs, for an event
\* that moves shares): an event whose block is below last_accounted_block
\* when it is applied aborts the replay and changes no record and no total.
C6_OutOfOrderFatal ==
    [][(StateRs /\ last_evt'.shares > 0
          /\ last_evt'.block_number < last_accounted_block) =>
          /\ status' = "panicked"
          /\ user_records' = user_records
          /\ total_shares_staked' = total_shares_staked]_vars

\* C7. A Withdraw, or the withdraw half of a Transfer, for an account without
\* a record halts the replay: no record is created, nothing is withdrawn, and
\* no event is ever applied after a halt.
C7_WithdrawUnknownFatal ==
    [][/\ status = "running"
       /\ (Takes(last_evt') /\ Source(last_evt') \notin DOMAIN user_records) =>
              /\ status' = "panicked"
              /\ DOMAIN user_records' = DOMAIN user_records
              /\ total_shares_staked' = total_shares_staked]_vars

\* C7 happens: the replay has halted on a withdrawal for an account that has
\* no record, of shares that another account does hold.
C7_Witness ==
    /\ status = "panicked"
    /\ last_evt.kind = "Withdrawal"
    /\ last_evt.address \notin DOMAIN user_records
    /\ last_evt.shares > 0
    /\ total_shares_staked >= last_evt.shares

\* No share count is the result of a subtraction below zero: each is at most
\* what the events so far can have deposited.
NoWrap ==
    /\ total_shares_staked \in 0..(applied * MaxShares)
    /\ \A a \in DOMAIN user_records :
           user_records[a].shares_staked \in 0..(applied * MaxShares)

OverWithdraws(evt) ==
    /\ Takes(evt)
    /\ Source(evt) \in DOMAIN user_records
    /\ \/ evt.shares > user_records[Source(evt)].shares_staked
       \/ evt.shares > total_shares_staked

\* C8. No silent wrap: a Withdraw or Transfer of more shares than the account
\* or the total holds halts the replay, and no shares_staked and no
\* total_shares_staked ever holds a wrapped value.
C8_NoSilentWrap ==
    [][/\ OverWithdraws(last_evt') => status' = "panicked"
       /\ NoWrap']_vars

\* C8 happens: the replay has halted on a withdrawal of more than the
\* account's recorded stake, which is left as it was.
C8_Witness ==
    /\ status = "panicked"
    /\ last_evt.kind = "Withdrawal"
    /\ last_evt.address \in DOMAIN user_records
    /\ last_evt.shares > user_records[last_evt.address].shares_staked
    /\ total_shares_staked >= last_evt.shares

\* Withdraw(from) immediately followed by Deposit(to), as process_events
\* applies two events: the second is not applied when the first aborts.
WithdrawThenDeposit(self, transfer) ==
    LET s1 == process_withdraw(self, WithdrawOf(transfer))
    IN  IF Running(s1) THEN process_deposit(s1, DepositOf(transfer)) ELSE s1

\* C9. Transfer equivalence: a Transfer leaves the engine (records, totals,
\* accumulator, last_accounted_block, abort or not) exactly as Withdraw(from)
\* followed by Deposit(to) at the same block does.
C9_TransferEquivalence ==
    [][last_evt'.kind = "Transfer" => GS' = WithdrawThenDeposit(GS, last_evt')]_vars

\* C9 happens: a transfer between two accounts went through and created the
\* receiver's record, after rewards had been distributed.
C9_Witness ==
    /\ Live
    /\ last_evt.kind = "Transfer"
    /\ last_evt.shares > 0
    /\ last_evt.from # last_evt.to
    /\ user_records[last_evt.to].rewards_per_share_snapshot > 0
    /\ user_records[last_evt.to].shares_staked = last_evt.shares

\* C10. A Transfer that is applied leaves total_shares_staked unchanged, and
\* its deposit half does not advance the accumulator: total_rewards_per_share
\* and last_accounted_block end as the withdraw half left them.
C10_TransferFrame ==
    [][(last_evt'.kind = "Transfer" /\ status' = "running") =>
          LET s1 == process_withdraw(GS, WithdrawOf(last_evt'))
          IN  /\ total_shares_staked' = total_shares_staked
              /\ total_rewards_per_share' = s1.total_rewards_per_share
              /\ last_accounted_block' = s1.last_accounted_block]_vars

\* C10 happens: a transfer of a part of the stake went through at a block
\* past the last accounted one, so its withdraw half advanced the accumulator.
C10_Witness ==
    /\ Live
    /\ last_evt.kind = "Transfer"
    /\ last_evt.shares > 0
    /\ last_evt.from # last_evt.to
    /\ last_accounted_block = last_evt.block_number
    /\ last_accounted_block > BLOCK_CONTRACT_DEPLOYED
    /\ user_records[last_evt.from].shares_staked > 0
    /\ applied = 3

\* C5 happens: two accounts have deposited, the first one after the deploy
\* block, and the aggregate at a later block is not zero.
C5_Witness ==
    /\ Live /\ StateRs /\ ordered /\ deposits_only
    /\ DOMAIN user_records = Accounts
    /\ \A a \in Accounts : user_records[a].shares_staked > 0
    /\ last_event_block > BLOCK_CONTRACT_DEPLOYED
    /\ last_accounted_block = last_event_block
    /\ get_all_rewards(GS, last_event_block) > 0

\* The account a Deposit or Withdraw event settles
Settles(evt, a) == evt.kind \in {"Deposit", "Withdrawal"} /\ evt.address = a

\* The reward of a's record since its snapshot, projected to block b, still
\* scaled by Ether: (total_rewards_per_share + projected delta - snapshot) x
\* shares_staked.
ProjectedUserReward(a, b) ==
    (total_rewards_per_share
        + ((b - last_accounted_block) * Ether * Ether) \div total_shares_staked
        - user_records[a].rewards_per_share_snapshot)
    * user_records[a].shares_staked

PreviewableAt(a, b) ==
    /\ StateRs
    /\ a \in DOMAIN user_records
    /\ total_shares_staked > 0
    /\ b >= last_accounted_block

\* C12. Preview formula, as claimed: with a record and a non-zero total stake
\* the preview is (user_reward + rewards_accumulated x PRECISION) / PRECISION.
C12_PreviewFormulaRescaled ==
    \A a \in Accounts : \A b \in Blocks :
        PreviewableAt(a, b) =>
            preview_user_rewards(GS, a, b) =
                (ProjectedUserReward(a, b)
                    + user_records[a].rewards_accumulated * Ether) \div Ether

\* C12 amended. The preview is (user_reward + rewards_accumulated) / PRECISION:
\* rewards_accumulated is added as stored, and what deposit and withdraw store
\* is the old value plus (total_rewards_per_share - snapshot) x shares_staked,
\* not descaled.
C12_PreviewFormula ==
    [][/\ \A a \in Accounts : \A b \in Blocks :
              PreviewableAt(a, b)' =>
                  preview_user_rewards(GS', a, b) =
                      ((ProjectedUserReward(a, b)
                          + user_records[a].rewards_accumulated) \div Ether)'
       /\ \A a \in DOMAIN user_records :
              (status' = "running" /\ Settles(last_evt', a)) =>
                  user_records'[a].rewards_accumulated =
                      user_records[a].rewards_accumulated
                        + (total_rewards_per_share'
                             - user_records[a].rewards_per_share_snapshot)
                          * user_records[a].shares_staked]_vars

\* C12 happens: an account with settled reward on record and stake is
\* previewed at a block ahead of last_accounted_block.
C12_Witness ==
    \E a \in Accounts :
        /\ Live
        /\ PreviewableAt(a, last_accounted_block + 1)
        /\ last_accounted_block + 1 \in Blocks
        /\ user_records[a].rewards_accumulated > 0
        /\ user_records[a].shares_staked > 0
        /\ Settles(last_evt, a)
        /\ preview_user_rewards(GS, a, last_accounted_block + 1)
               > user_records[a].rewards_accumulated \div Ether

\* C13. Preview rejects past blocks, as claimed: for every account, with or
\* without a record and whatever the total stake, a preview at a block below
\* last_accounted_block returns no reward value (the call panics).
C13_PreviewRejectsPast ==
    StateRs =>
        \A a \in Accounts : \A b \in Blocks :
            b < last_accounted_block => preview_user_rewards(GS, a, b) < 0

\* C14. Monotonicity: no step, whatever the event and its block, decreases
\* total_rewards_per_share or last_accounted_block.
C14_Monotonic ==
    [][/\ total_rewards_per_share' >= total_rewards_per_share
       /\ last_accounted_block' >= last_accounted_block]_vars

\* C14 happens: an event at a block below last_accounted_block has been
\* applied after the accumulator had advanced.
C14_Witness ==
    /\ Live
    /\ last_evt.kind # "None"
    /\ last_evt.block_number < last_accounted_block
    /\ total_rewards_per_share > 0
    /\ total_shares_staked > 0

\* C18. Snapshot bound: after every applied event every record's
\* rewards_per_share_snapshot is at most total_rewards_per_share.
C18_SnapshotBound ==
    Live => \A a \in DOMAIN user_records :
                user_records[a].rewards_per_share_snapshot <= total_rewards_per_share

\* C18 happens: one record's snapshot is the current accumulator, another's
\* an older, smaller one.
C18_Witness ==
    /\ Live
    /\ total_rewards_per_share > 0
    /\ \E a, b \in DOMAIN user_records :
           /\ user_records[a].rewards_per_share_snapshot = total_rewards_per_share
           /\ user_records[b].rewards_per_share_snapshot < total_rewards_per_share
           /\ user_records[b].rewards_per_share_snapshot > 0

\* C19. As claimed: after every applied event last_accounted_block is at most
\* the block of the event applied last.
C19_AccountedAtMostEvent ==
    AppliedEvent => last_accounted_block <= last_event_block

\* C20. Settlement neutrality, as claimed: an event at a block b >=
\* last_accounted_block that applies without aborting leaves every account's
\* preview at b as it was just before the event.
C20_SettlementNeutral ==
    [][(StateRs /\ status' = "running"
          /\ last_evt'.block_number >= last_accounted_block) =>
          \A a \in Accounts :
              preview_user_rewards(GS, a, last_evt'.block_number)
                  = preview_user_rewards(GS', a, last_evt'.block_number)]_vars

\* What a ranked report at block b must hold: every account with a record and
\* a non-zero preview, with that preview.
NonZeroRewards(b) ==
    {<<a, preview_user_rewards(GS, a, b)>> :
        a \in {x \in DOMAIN user_records : preview_user_rewards(GS, x, b) # 0}}

\* C15. Ranked report: whatever the order the account map is iterated in,
\* get_user_rewards(b) returns exactly the accounts with a record and a
\* non-zero preview at b, each once with that preview, rewards non-increasing
\* along the list.
C15_RankedReport ==
    StateRs =>
        \A b \in Blocks : \A keys \in KeyOrders(user_records) :
            LET got == get_user_rewards(GS, b, keys)
                r == got.records
            IN  ~got.panicked =>
                    /\ {r[i] : i \in 1..Len(r)} = NonZeroRewards(b)
                    /\ Len(r) = Cardinality(NonZeroRewards(b))
                    /\ \A i \in 1..(Len(r) - 1) : r[i][2] >= r[i + 1][2]

\* C15 happens: at some block the report lists both accounts, with different
\* rewards, and the account map yields the smaller one first.
C15_Witness ==
    /\ Live /\ StateRs
    /\ \E b \in Blocks : \E keys \in KeyOrders(user_records) :
           LET got == get_user_rewards(GS, b, keys)
           IN  /\ ~got.panicked
               /\ Len(got.records) = 2
               /\ got.records[1][2] > got.records[2][2]
               /\ got.records[1][1] = keys[2]

\* C16. Ranked report determinism, as claimed: for one engine state and block
\* get_user_rewards returns the same sequence whatever the iteration order of
\* the account map.
C16_RankedDeterministic ==
    StateRs =>
        \A b \in Blocks : \A k1, k2 \in KeyOrders(user_records) :
            get_user_rewards(GS, b, k1) = get_user_rewards(GS, b, k2)

\* C17. No division by zero: no event ends in a division by
\* total_shares_staked = 0, and no preview_user_rewards or get_all_rewards
\* call, for any account and block, divides by zero, whatever the stakes.
C17_NoDivisionByZero ==
    /\ status # "divided_by_zero"
    /\ (Live /\ StateRs) =>
           \A b \in Blocks :
               /\ get_all_rewards(GS, b) # DivByZero
               /\ \A a \in Accounts : preview_user_rewards(GS, a, b) # DivByZero

\* C17 happens: the whole stake has been withdrawn after rewards were
\* distributed, an event at a later block has been applied on the empty
\* engine, and there is a zero-stake record to preview.
C17_Witness ==
    /\ Live /\ StateRs
    /\ total_shares_staked = 0
    /\ total_rewards_per_share > 0
    /\ last_evt.kind # "None"
    /\ last_evt.block_number > last_accounted_block
    /\ \E a \in DOMAIN user_records : user_records[a].rewards_accumulated > 0

IsCall == applied' = applied /\ last_call' # NoCall

SameCall ==
    /\ last_call # NoCall
    /\ last_call'.fn = last_call.fn
    /\ last_call'.user = last_call.user
    /\ last_call'.block_number = last_call.block_number

\* C11. Preview is a pure read: a call of preview_user_rewards or
\* get_all_rewards leaves user_records, total_shares_staked,
\* total_rewards_per_share and last_accounted_block unchanged; the same call
\* repeated on the unchanged engine returns the same result; and no call
\* changes what any other call, for any account and block, returns.
C11_PureRead ==
    [][ IsCall =>
          /\ UNCHANGED <<user_records, total_shares_staked,
                         total_rewards_per_share, last_accounted_block>>
          /\ SameCall => last_call'.result = last_call.result
          /\ \A b \in Blocks :
               /\ get_all_rewards(GS', b) = get_all_rewards(GS, b)
               /\ \A a \in Accounts :
                    preview_user_rewards(GS', a, b) = preview_user_rewards(GS, a, b)
      ]_vars

\* C11 happens: a preview for a block past last_accounted_block, while
\* stake is in, has returned a reward that is not yet settled in the engine.
C11_Witness ==
    /\ Live
    /\ last_call # NoCall
    /\ last_call.fn = "preview_user_rewards"
    /\ last_call.block_number > last_accounted_block
    /\ total_shares_staked > 0
    /\ last_call.result > 0

====
